---------------------------- MODULE Spec2Model ----------------------------
(***************************************************************************)
(* A model of the retrieval pipeline of the HR-policy assistant:           *)
(*   - server.ts: the lazily built embedding model (getEmbedder and the   *)
(*     POST /api/embed handler), the SQLite store behind POST /api/ingest, *)
(*     DELETE /api/documents/:id, POST /api/search and GET /api/documents; *)
(*   - ragService.ts: RAGService.ingestDocument, the client-side           *)
(*     coordinator that chunks a text, embeds the chunks in windows of     *)
(*     five concurrent calls and commits them with one POST /api/ingest.   *)
(*                                                                         *)
(* The specifications share the variables:                                 *)
(*   Spec        the store under arbitrary Ingest / Delete / Search /      *)
(*               ListDocuments requests (each handler is synchronous, so   *)
(*               one handler is one step);                                 *)
(*   SpecIngest  ingestDocument requests (asynchronous, one step per       *)
(*               await) running against the same store;                    *)
(*   SpecEmbed   concurrent POST /api/embed requests sharing `embedder`;   *)
(*   SpecSearch  Search requests over a store filled by one Ingest;        *)
(*   SpecChunker the chunking loop of ingestDocument, turn by turn;        *)
(*   SpecList    the store while the clock behind created_at moves on;     *)
(*   SpecAsk     RAGService.ask requests (one step per await) running      *)
(*               against the store.                                        *)
(***************************************************************************)
EXTENDS Integers, Sequences, FiniteSets, TLC

(***************************************************************************)
(* Bounds of the model.                                                    *)
(***************************************************************************)
\* Longest chunk list a direct Ingest request carries.
MaxEntries == 2
\* Largest topK a Search request carries.
MaxTopK == 2
\* How many ingestDocument requests a behaviour starts, one after the other.
MaxRequests == 2
\* How many embedding windows the longest ingested text needs.
MaxWindows == 2
\* How many POST /api/embed requests a behaviour of SpecEmbed serves.
MaxEmbedRequests == 3
\* How many chunks the store of SpecSearch holds at most.
MaxRows == 3
\* The last second the clock of SpecList reaches.
MaxClock == 2
\* How many chunks the store of SpecAsk holds at most.
MaxAskRows == 5

(***************************************************************************)
(* Values of the request bodies.                                           *)
(***************************************************************************)
\* Document ids a caller may send.  "" stands for a falsy id (absent or "").
DocIds == {"d1", "d2"}
\* crypto.randomUUID(): a value no other call returns.  The document id of
\* the n-th ingestDocument request, and the id of its k-th chunk.
DocUuid(n) == "doc-" \o ToString(n)
ChunkUuid(n, k) == "chunk-" \o ToString(n) \o "-" \o ToString(k)
\* Every document id of the model.
AllDocIds == DocIds \cup {DocUuid(n) : n \in 1..MaxRequests}
\* Chunk ids a caller may send.
ChunkIds == {"c1", "c2"}
\* Document names; "" is the falsy name.
Names == {"h.txt"}
\* The MIME type or extension sent with a document.
Types == {"text/plain"}
\* Chunk texts and metadata of direct Ingest requests.
Texts == {<<"p">>}
Metadatas == {[source |-> "h.txt"]}
\* Numeric vectors: embeddings and query vectors.
Vectors == {<<1>>, <<1, 0>>}
\* The vectors of SpecSearch: parallel vectors, the zero vector, a shorter
\* vector.
SearchVectors == {<<1, 0>>, <<3, 3>>, <<1, 1>>, <<0, 1>>, <<0, 0>>, <<1>>}
\* The vectors of SpecAsk.
AskVectors == {<<1, 0>>, <<0, 1>>}

\* The `embedding` member of a chunk entry: absent, a non-array value (a
\* string), or an array of numbers.
NoEmbedding == [kind |-> "absent"]
NotArrayEmbedding == [kind |-> "string"]
ArrayEmbedding(v) == [kind |-> "array", v |-> v]
EmbeddingFields ==
    {NoEmbedding, NotArrayEmbedding} \cup {ArrayEmbedding(v) : v \in Vectors}

\* DocumentChunk as it travels in the body of POST /api/ingest.
Entries ==
    [id : ChunkIds, text : Texts, metadata : Metadatas, embedding : EmbeddingFields]

\* Sequences over S of length at most n.
SeqUpTo(S, n) == UNION {[1..k -> S] : k \in 0..n}

\* The `chunks` member of the body: absent, a value that is truthy but not
\* iterable (a number, a plain object), a non-empty string (iterable, its
\* elements are characters), or an array of entries.
NoChunks == [kind |-> "absent"]
NotIterableChunks == [kind |-> "number"]
StringChunks == [kind |-> "string"]
ArrayChunks(items) == [kind |-> "array", items |-> items]
ChunksFields ==
    {NoChunks, NotIterableChunks, StringChunks}
        \cup {ArrayChunks(items) : items \in SeqUpTo(Entries, MaxEntries)}

\* Bodies of POST /api/ingest: those that carry an id, a name and chunks, and
\* those that lack one of them, with at most one entry.
CompleteBodies ==
    [id : DocIds, name : Names, type : Types, chunks : ChunksFields \ {NoChunks}]
IncompleteBodies ==
    {b \in [id : DocIds \cup {""}, name : Names \cup {""}, type : Types,
            chunks : {NoChunks, NotIterableChunks, StringChunks}
                        \cup {ArrayChunks(items) : items \in SeqUpTo(Entries, 1)}] :
        b.id = "" \/ b.name = "" \/ b.chunks = NoChunks}
IngestBodies == CompleteBodies \cup IncompleteBodies

VARIABLES
    \* server.ts: the store
    documents,     \* table documents: rows in insertion (rowid) order
    chunks,        \* table chunks: rows in insertion (rowid) order
    now,           \* the server's clock (CURRENT_TIMESTAMP), the source of created_at
    \* history of the store's requests
    lastOp,        \* the request just served by the store, with its response
    committed,     \* per document id, the rows its last successful Ingest wrote
    deleted,       \* ids deleted and not ingested again since
    cascaded,      \* those of `deleted` whose delete removed chunk rows
    \* ragService.ts: one ingestDocument request at a time
    pc,            \* where the request is: Idle, Chunking, Embedding, ...
    ingDocId,      \* const docId
    ingArgs,       \* parameters text, source, type, onProgress
    ingChunks,     \* const chunks
    winStart,      \* the loop variable i of the batch loop
    calls,         \* per chunk, its createEmbeddings call: idle, inflight, ok, failed
    progress,      \* the values handed to onProgress, in order
    visited,       \* history: the states the request has entered, in order
    commits,       \* history: how many POST /api/ingest the request has issued
    requests,      \* how many ingestDocument requests have been started (the current one's number)
    \* server.ts: the embedding model
    embedder,      \* let embedder
    pipelineCalls, \* history: how many times pipeline(...) was invoked
    epc,           \* per POST /api/embed request, where its handler is
    \* ragService.ts: the chunking loop of ingestDocument, iteration by iteration
    ckAt,          \* idle, loop (at the test of the while), done
    ckText,        \* parameter text
    ckStart,       \* let start
    ckChunks,      \* the texts of const chunks
    ckWindows,     \* history: start and end of every iteration, in order
    \* ragService.ts: one ask request at a time
    askAt,         \* idle, embedding, searching, chatting, done, failed
    askArgs,       \* parameters question, history
    askQuery,      \* const queryEmbedding of search
    askServed,     \* history: what the handler of POST /api/search sent
    askSources,    \* const contextChunks
    askMessages,   \* const messages
    askData,       \* const data, the body of the chat response
    askOut,        \* what ask has returned or thrown
    askSteps       \* history: the steps taken with their outcome, in order

storeVars == <<documents, chunks, now>>
histVars == <<lastOp, committed, deleted, cascaded>>
ingestVars ==
    <<pc, ingDocId, ingArgs, ingChunks, winStart, calls, progress, visited, commits,
      requests>>
embedVars == <<embedder, pipelineCalls, epc>>
chunkVars == <<ckAt, ckText, ckStart, ckChunks, ckWindows>>
askVars ==
    <<askAt, askArgs, askQuery, askServed, askSources, askMessages, askData, askOut,
      askSteps>>
vars == <<storeVars, histVars, ingestVars, embedVars, chunkVars, askVars>>

(***************************************************************************)
(* The store: tables documents and chunks (server.ts:32-47).               *)
(***************************************************************************)
\* Positions of the rows of `rows` whose id is `id`.
DocIndex(rows, id) == {i \in 1..Len(rows) : rows[i].id = id}

\* JSON.stringify(chunk.metadata) and the JSON.parse that reads it back.
JsonStringify(value) == <<"json", value>>
JsonParse(string) == string[2]

\* new Float32Array(chunk.embedding): every element is rounded to single
\* precision.  The elements of Vectors are small integers, which single
\* precision holds exactly.
ToFloat32(x) == x
Float32Array(v) == [i \in 1..Len(v) |-> ToFloat32(v[i])]

\* The test of server.ts:121, negated: the entry carries an array.
HasArrayEmbedding(chunk) == chunk.embedding.kind = "array"

\* insertDoc.run(docId, docName, docType): id is the PRIMARY KEY, created_at
\* defaults to CURRENT_TIMESTAMP.
InsertDoc(docs, id, name, type, t) ==
    IF DocIndex(docs, id) # {}
    THEN [ok |-> FALSE, rows |-> docs]
    ELSE [ok |-> TRUE,
          rows |-> Append(docs, [id |-> id, name |-> name, type |-> type,
                                 created_at |-> t])]

\* Mutant of InsertChunk: INSERT OR REPLACE, a row with the same id is
\* replaced by the new one.
InsertChunkOrReplace(rows, chunk, docId) ==
    LET Other(r) == r.id # chunk.id
    IN  [ok |-> TRUE,
         rows |-> Append(SelectSeq(rows, Other),
                         [id |-> chunk.id, document_id |-> docId,
                          text |-> chunk.text,
                          metadata |-> JsonStringify(chunk.metadata),
                          embedding |-> Float32Array(chunk.embedding.v)])]

\* insertChunk.run(chunk.id, docId, chunk.text, JSON.stringify(chunk.metadata),
\* embeddingBuffer): id is the PRIMARY KEY.
InsertChunk(rows, chunk, docId) ==
    IF DocIndex(rows, chunk.id) # {}
    THEN [ok |-> FALSE, rows |-> rows]
    ELSE [ok |-> TRUE,
          rows |-> Append(rows, [id |-> chunk.id, document_id |-> docId,
                                 text |-> chunk.text,
                                 metadata |-> JsonStringify(chunk.metadata),
                                 embedding |-> Float32Array(chunk.embedding.v)])]

\* Mutant of InsertChunksFrom: an entry without an array embedding throws
\* instead of being skipped.
RECURSIVE InsertChunksFromThrow(_, _, _, _)
InsertChunksFromThrow(rows, items, k, docId) ==
    IF k > Len(items) THEN [ok |-> TRUE, rows |-> rows]
    ELSE IF ~HasArrayEmbedding(items[k])
         THEN [ok |-> FALSE, rows |-> rows]
         ELSE LET r == InsertChunk(rows, items[k], docId)
              IN  IF r.ok THEN InsertChunksFromThrow(r.rows, items, k + 1, docId)
                  ELSE r

\* The loop of server.ts:120-128 from entry k on: an entry without an array
\* embedding is skipped, a failing insert throws out of the loop.
RECURSIVE InsertChunksFrom(_, _, _, _)
InsertChunksFrom(rows, items, k, docId) ==
    IF k > Len(items) THEN [ok |-> TRUE, rows |-> rows]
    ELSE IF ~HasArrayEmbedding(items[k])
         THEN InsertChunksFrom(rows, items, k + 1, docId)
         ELSE LET r == InsertChunk(rows, items[k], docId)
              IN  IF r.ok THEN InsertChunksFrom(r.rows, items, k + 1, docId)
                  ELSE r

\* Mutants of Rollback: nothing is undone (the inserts run outside a
\* transaction); only the chunk rows are undone; only the document row is.
RollbackNothing(docs, chs, docsNow, chsNow) ==
    [ok |-> FALSE, documents |-> docsNow, chunks |-> chsNow]
RollbackChunksOnly(docs, chs, docsNow, chsNow) ==
    [ok |-> FALSE, documents |-> docsNow, chunks |-> chs]
RollbackDocumentOnly(docs, chs, docsNow, chsNow) ==
    [ok |-> FALSE, documents |-> docs, chunks |-> chsNow]

\* What db.transaction leaves when its function threw: better-sqlite3 rolls
\* the transaction back, so both tables are as before.
Rollback(docs, chs, docsNow, chsNow) ==
    [ok |-> FALSE, documents |-> docs, chunks |-> chs]

\* transaction(id, name, type, chunks) of server.ts:118-129,132.
Transaction(docs, chs, body, t) ==
    LET d == InsertDoc(docs, body.id, body.name, body.type, t)
    IN  IF ~d.ok THEN Rollback(docs, chs, d.rows, chs)
        ELSE IF body.chunks.kind = "number"
             THEN \* for (const chunk of docChunks) throws: not iterable
                  Rollback(docs, chs, d.rows, chs)
        ELSE IF body.chunks.kind = "string"
             THEN \* every chunk is a character, whose .embedding is undefined:
                  \* all are skipped
                  [ok |-> TRUE, documents |-> d.rows, chunks |-> chs]
             ELSE LET c == InsertChunksFrom(chs, body.chunks.items, 1, body.id)
                  IN  IF c.ok
                      THEN [ok |-> TRUE, documents |-> d.rows, chunks |-> c.rows]
                      ELSE Rollback(docs, chs, d.rows, c.rows)

\* Mutant of MissingFields: an empty array of chunks counts as missing.
MissingFieldsOrNoEntry(body) ==
    \/ body.id = "" \/ body.name = "" \/ body.chunks.kind = "absent"
    \/ (body.chunks.kind = "array" /\ body.chunks.items = << >>)

\* The check of server.ts:111: a falsy id, name or chunks.
MissingFields(body) ==
    body.id = "" \/ body.name = "" \/ body.chunks.kind = "absent"

\* Mutant of DeleteFrom: the foreign key is not enforced, no cascade.
DeleteFromNoCascade(docs, chs, id) ==
    LET KeepDoc(r) == r.id # id
    IN  [documents |-> SelectSeq(docs, KeepDoc), chunks |-> chs]

\* DELETE FROM documents WHERE id = ?, with ON DELETE CASCADE on
\* chunks.document_id (better-sqlite3 enforces foreign keys by default).
DeleteFrom(docs, chs, id) ==
    LET KeepDoc(r) == r.id # id
        KeepChunk(r) == r.document_id # id
    IN  [documents |-> SelectSeq(docs, KeepDoc),
         chunks |-> SelectSeq(chs, KeepChunk)]

(***************************************************************************)
(* POST /api/search (server.ts:150-183).                                   *)
(***************************************************************************)
\* topK when the body carries none.
DefaultTopK == 5

\* f[1] + ... + f[n].
RECURSIVE SumTo(_, _)
SumTo(f, n) == IF n = 0 THEN 0 ELSE f[n] + SumTo(f, n - 1)

(***************************************************************************)
(* IEEE 754 double precision, as far as line 168 needs it: Math.sqrt of a  *)
(* natural number, the product of two positive doubles and the quotient of *)
(* an integer by a positive double, each rounded to nearest, ties to even. *)
(* A natural number of up to 112 bits is kept as 8 limbs of 14 bits, the   *)
(* lowest first.  A finite double is (-1)^neg * mant * 2^exp with mant of  *)
(* exactly 53 bits, or zero (mant and exp 0).                              *)
(***************************************************************************)
Base == 2^14
Limbs == 1..8
BigZero == <<0, 0, 0, 0, 0, 0, 0, 0>>
\* The natural number n < 2^31 in limbs.
BigOfInt(n) == <<n % Base, (n \div Base) % Base, n \div (Base * Base), 0, 0, 0, 0, 0>>
\* Limb i of x, 0 outside the limbs.
LimbAt(x, i) == IF i \in Limbs THEN x[i] ELSE 0

\* The limbs of the number whose limbs-with-excess are raw[i..], plus the
\* carry c (negative for a borrow).
RECURSIVE Carry(_, _, _)
Carry(raw, i, c) ==
    IF i > Len(raw) THEN << >>
    ELSE LET v == raw[i] + c
         IN  <<v % Base>> \o Carry(raw, i + 1, v \div Base)

\* x - y (for x >= y), x * k and x + k for a small k.
BigSub(x, y) == Carry([i \in Limbs |-> x[i] - y[i]], 1, 0)
BigTimes(x, k) == Carry([i \in Limbs |-> x[i] * k], 1, 0)
BigPlus(x, k) == Carry([i \in Limbs |-> IF i = 1 THEN x[i] + k ELSE x[i]], 1, 0)

\* x < y.
BigLess(x, y) ==
    \E i \in Limbs : x[i] < y[i] /\ \A j \in Limbs : j > i => x[j] = y[j]

\* x * y for x, y < 2^53 (four limbs each, the fourth of 11 bits).
BigMul(x, y) ==
    Carry([i \in Limbs |->
              SumTo([j \in 1..4 |-> IF i - j + 1 \in 1..4 THEN x[j] * y[i - j + 1]
                                    ELSE 0], 4)], 1, 0)

\* x shifted right and left by s bits.
BigShr(x, s) ==
    LET q == s \div 14
        r == s % 14
        At(i) == (LimbAt(x, i + q) \div 2^r) + (LimbAt(x, i + q + 1) % 2^r) * 2^(14 - r)
    IN  <<At(1), At(2), At(3), At(4), At(5), At(6), At(7), At(8)>>
BigShl(x, s) ==
    LET q == s \div 14
        r == s % 14
        At(i) == (LimbAt(x, i - q) % 2^(14 - r)) * 2^r
                    + (LimbAt(x, i - q - 1) \div 2^(14 - r))
    IN  <<At(1), At(2), At(3), At(4), At(5), At(6), At(7), At(8)>>

\* The number of bits of n and of x, and bit k of x (bit 0 is the lowest).
RECURSIVE IntBits(_)
IntBits(n) == IF n = 0 THEN 0 ELSE 1 + IntBits(n \div 2)
BigBits(x) ==
    LET used == {i \in Limbs : x[i] # 0}
    IN  IF used = {} THEN 0
        ELSE LET top == CHOOSE i \in used : \A j \in used : j <= i
             IN  14 * (top - 1) + IntBits(x[top])
BigBit(x, k) == (x[(k \div 14) + 1] \div 2^(k % 14)) % 2

\* The double nearest to (-1)^neg * (x + d) * 2^e for a natural x # 0 in
\* limbs and 0 <= d < 1, d # 0 iff `inexact`; ties go to the even mantissa.
\* With `inexact`, x has 55 bits or more.
RoundToDouble(neg, x, e, inexact) ==
    LET s == BigBits(x) - 53
    IN  IF s <= 0
        THEN [nan |-> FALSE, neg |-> neg, mant |-> BigShl(x, -s), exp |-> e + s]
        ELSE LET q == BigShr(x, s)
                 half == BigBit(x, s - 1) = 1
                 rest == inexact \/ BigShl(BigShr(x, s - 1), s - 1) # x
                 up == half /\ (rest \/ q[1] % 2 = 1)
                 m == IF up THEN BigPlus(q, 1) ELSE q
             IN  IF BigBits(m) > 53
                 THEN [nan |-> FALSE, neg |-> neg, mant |-> BigShr(m, 1),
                       exp |-> e + s + 1]
                 ELSE [nan |-> FALSE, neg |-> neg, mant |-> m, exp |-> e + s]

\* The square root digit by digit, one bit of the root: `left` pairs of
\* bits of n are still to come (zeros after them).
SqrtStep(n, st) ==
    LET pair == IF st.left > 0 THEN (n \div 4^(st.left - 1)) % 4 ELSE 0
        more == BigPlus(BigTimes(st.rem, 4), pair)
        trial == BigPlus(BigTimes(st.root, 4), 1)
    IN  IF BigLess(more, trial)
        THEN [left |-> st.left - 1, root |-> BigTimes(st.root, 2), rem |-> more]
        ELSE [left |-> st.left - 1, root |-> BigPlus(BigTimes(st.root, 2), 1),
              rem |-> BigSub(more, trial)]

\* `turns` steps from st: the first half of them, then the rest from the
\* state the first half ends in.  The test on mid always holds; with it the
\* first half is evaluated before the rest is begun.
RECURSIVE SqrtLoop(_, _, _)
SqrtLoop(n, st, turns) ==
    IF turns = 0 THEN st
    ELSE IF turns = 1 THEN SqrtStep(n, st)
    ELSE LET mid == SqrtLoop(n, st, turns \div 2)
         IN  IF mid.left <= st.left THEN SqrtLoop(n, mid, turns - (turns \div 2))
             ELSE st

FZero == [nan |-> FALSE, neg |-> FALSE, mant |-> BigZero, exp |-> 0]

\* Math.sqrt(n) for a natural number n: the root of n * 4^k to 55 bits,
\* rounded.
FSqrt(n) ==
    IF n = 0 THEN FZero
    ELSE LET pairs == (IntBits(n) + 1) \div 2
             r == SqrtLoop(n, [left |-> pairs, root |-> BigZero, rem |-> BigZero], 55)
         IN  RoundToDouble(FALSE, r.root, pairs - 55, r.rem # BigZero)

\* x * y for two positive doubles.
FMul(x, y) == RoundToDouble(FALSE, BigMul(x.mant, y.mant), x.exp + y.exp, FALSE)

\* Long division, one bit of the quotient q of rem by d.
DivStep(d, st) ==
    LET twice == BigTimes(st.rem, 2)
    IN  IF BigLess(twice, d)
        THEN [q |-> BigTimes(st.q, 2), rem |-> twice]
        ELSE [q |-> BigPlus(BigTimes(st.q, 2), 1), rem |-> BigSub(twice, d)]

\* `turns` steps from st: the first half of them, then the rest from the
\* state the first half ends in.  The test on mid always holds; with it the
\* first half is evaluated before the rest is begun.
RECURSIVE DivLoop(_, _, _)
DivLoop(d, st, turns) ==
    IF turns = 0 THEN st
    ELSE IF turns = 1 THEN DivStep(d, st)
    ELSE LET mid == DivLoop(d, st, turns \div 2)
         IN  IF mid.q # << >> THEN DivLoop(d, mid, turns - (turns \div 2))
             ELSE st

\* n / y for an integer n # 0 and a positive double y: |n| is brought to 53
\* bits and the quotient taken to 55 bits behind the first, then rounded.
FDiv(n, y) ==
    LET a == IF n < 0 THEN -n ELSE n
        bits == IntBits(a)
        num == BigShl(BigOfInt(a), 53 - bits)
        first == ~BigLess(num, y.mant)
        r == DivLoop(y.mant,
                     [q |-> BigOfInt(IF first THEN 1 ELSE 0),
                      rem |-> IF first THEN BigSub(num, y.mant) ELSE num],
                     55)
    IN  RoundToDouble(n < 0, r.q, bits - 108 - y.exp, r.rem # BigZero)

\* x < y for two doubles that are numbers.
MagnitudeLess(x, y) ==
    /\ y.mant # BigZero
    /\ \/ x.mant = BigZero
       \/ x.exp < y.exp
       \/ x.exp = y.exp /\ BigLess(x.mant, y.mant)
ScoreLess(x, y) ==
    IF x.neg # y.neg THEN x.neg
    ELSE IF x.neg THEN MagnitudeLess(y, x)
    ELSE MagnitudeLess(x, y)

\* A score is NaN or a double.
NaN == [nan |-> TRUE, neg |-> FALSE, mant |-> BigZero, exp |-> 0]

\* dotProduct / (Math.sqrt(normA) * Math.sqrt(normB)) of line 168 for the
\* three sums, which are integers; 0 / 0 is NaN.
Quotient(dotProduct, normA, normB) ==
    IF normA = 0 \/ normB = 0 THEN NaN
    ELSE IF dotProduct = 0 THEN FZero
    ELSE FDiv(dotProduct, FMul(FSqrt(normA), FSqrt(normB)))

\* The three sums of the loop of server.ts:163-167.
Sums(queryVec, chunkVec) ==
    LET n == Len(queryVec)
    IN  <<SumTo([i \in 1..n |-> queryVec[i] * chunkVec[i]], n),
          SumTo([i \in 1..n |-> queryVec[i] * queryVec[i]], n),
          SumTo([i \in 1..n |-> chunkVec[i] * chunkVec[i]], n)>>

\* The quotients of the vectors the specifications use, computed once.
KnownVectors == Vectors \cup SearchVectors \cup AskVectors
KnownSums ==
    {Sums(q, c) : <<q, c>> \in {p \in KnownVectors \X KnownVectors : Len(p[1]) <= Len(p[2])}}
KnownQuotients == {<<t, Quotient(t[1], t[2], t[3])>> : t \in KnownSums}

\* The loop of server.ts:160-168 over the indices of the query.  Reading
\* chunkVec past its end gives undefined, which turns the sums into NaN.
Score(queryVec, chunkVec) ==
    IF Len(queryVec) > Len(chunkVec) THEN NaN
    ELSE LET t == Sums(queryVec, chunkVec)
         IN  IF t \in KnownSums
             THEN (CHOOSE p \in KnownQuotients : p[1] = t)[2]
             ELSE Quotient(t[1], t[2], t[3])

\* The comparator (a, b) => b.score - a.score, by sign.  A NaN difference
\* counts as 0 for Array.prototype.sort.
CompareFn(a, b) ==
    IF a.score.nan \/ b.score.nan THEN 0
    ELSE IF ScoreLess(a.score, b.score) THEN 1
    ELSE IF ScoreLess(b.score, a.score) THEN -1
    ELSE 0

\* scoredChunks.sort(comparator) as Node's engine sorts an array of fewer
\* than 64 elements: the longest run that starts the array is found (and
\* reversed when it descends), then every later element is put into the
\* sorted front by binary insertion.  With a comparator that is a total
\* preorder this is a stable sort; NaN scores break that, and the result is
\* then what these steps leave.
Reverse(items) == [i \in 1..Len(items) |-> items[Len(items) + 1 - i]]

\* The length of the run items[1..k] extended as far as it goes.
RECURSIVE RunLength(_, _, _)
RunLength(items, descending, k) ==
    IF k = Len(items) THEN k
    ELSE LET order == CompareFn(items[k + 1], items[k])
         IN  IF (descending /\ order >= 0) \/ (~descending /\ order < 0) THEN k
             ELSE RunLength(items, descending, k + 1)

\* The array after the first run is made ascending, and the run's length.
CountAndMakeRun(items) ==
    IF Len(items) < 2 THEN [run |-> Len(items), items |-> items]
    ELSE LET descending == CompareFn(items[2], items[1]) < 0
             run == RunLength(items, descending, 2)
         IN  [run |-> run,
              items |-> IF descending
                        THEN Reverse(SubSeq(items, 1, run))
                                \o SubSeq(items, run + 1, Len(items))
                        ELSE items]

\* The position (counted from 0) the binary search gives `pivot` in
\* items[left + 1 .. right].
RECURSIVE InsertionPoint(_, _, _, _)
InsertionPoint(items, pivot, left, right) ==
    IF ~(left < right) THEN left
    ELSE LET mid == left + ((right - left) \div 2)
         IN  IF CompareFn(pivot, items[mid + 1]) < 0
             THEN InsertionPoint(items, pivot, left, mid)
             ELSE InsertionPoint(items, pivot, mid + 1, right)

\* Binary insertion of items[start + 1], items[start + 2], ... into the
\* sorted front items[1..start].
RECURSIVE BinaryInsertionSort(_, _)
BinaryInsertionSort(items, start) ==
    IF start >= Len(items) THEN items
    ELSE LET pivot == items[start + 1]
             left == InsertionPoint(items, pivot, 0, start)
         IN  BinaryInsertionSort(
                 SubSeq(items, 1, left) \o <<pivot>> \o SubSeq(items, left + 1, start)
                     \o SubSeq(items, start + 2, Len(items)),
                 start + 1)

SortByScore(items) ==
    LET r == CountAndMakeRun(items)
    IN  BinaryInsertionSort(r.items, r.run)

\* Mutant of Slice0: slice(0, end + 1).
Slice0OneMore(items, end) ==
    SubSeq(items, 1, IF end + 1 > Len(items) THEN Len(items)
                     ELSE IF end + 1 < 0 THEN 0 ELSE end + 1)

\* Array.prototype.slice(0, end): a negative end counts from the back.
Slice0(items, end) ==
    LET n == Len(items)
        to == IF end < 0 THEN (IF n + end < 0 THEN 0 ELSE n + end)
              ELSE (IF end > n THEN n ELSE end)
    IN  SubSeq(items, 1, to)

\* The map of server.ts:156-176 for one row.
ScoredChunk(row, queryVec) ==
    [id |-> row.id, text |-> row.text, metadata |-> JsonParse(row.metadata),
     score |-> Score(queryVec, row.embedding)]

\* const scoredChunks of server.ts:156 over the rows `chs`.
ScoredChunks(chs, queryEmbedding) ==
    LET queryVec == Float32Array(queryEmbedding)
    IN  [i \in 1..Len(chs) |-> ScoredChunk(chs[i], queryVec)]

\* The response of POST /api/search over the rows `chs`.
SearchResults(chs, queryEmbedding, topK) ==
    Slice0(SortByScore(ScoredChunks(chs, queryEmbedding)), topK)

(***************************************************************************)
(* GET /api/documents (server.ts:102-105).                                 *)
(***************************************************************************)
\* The orders SELECT * FROM documents ORDER BY created_at DESC may return:
\* rows of equal created_at come in an order the query does not fix.
ListOrders(docs) ==
    LET n == Len(docs)
        perms == {p \in [1..n -> 1..n] : \A i, j \in 1..n : i # j => p[i] # p[j]}
    IN  {[i \in 1..n |-> docs[p[i]]] : p \in
            {q \in perms : \A i, j \in 1..n :
                i < j => docs[q[i]].created_at >= docs[q[j]].created_at}}

(***************************************************************************)
(* The handlers of the store, one step each: every handler is synchronous  *)
(* (better-sqlite3 blocks), so no other request runs inside one.           *)
(*                                                                         *)
(* lastOp is a history variable: it keeps the request a handler has just   *)
(* served, the tables the handler found and the response it sent, until    *)
(* Respond drops the record.  A handler runs when no record is kept, so a  *)
(* record always describes the step that led to the current state.         *)
(***************************************************************************)
\* Status codes of the responses.
Ok == 200
BadRequest == 400
ServerError == 500

NoOp == [op |-> "none"]

\* The tables as a handler finds them.
Tables == [documents |-> documents, chunks |-> chunks]

\* The rows the step from chs to chsNow appended.
Appended(chs, chsNow) == SubSeq(chsNow, Len(chs) + 1, Len(chsNow))

\* The store and its history after POST /api/ingest with `body`.
IngestEffect(body) ==
    IF MissingFields(body)
    THEN /\ UNCHANGED <<documents, chunks, committed, deleted, cascaded>>
         /\ lastOp' = [op |-> "ingest", body |-> body, before |-> Tables,
                       status |-> BadRequest]
    ELSE LET t == Transaction(documents, chunks, body, now)
         IN  /\ documents' = t.documents
             /\ chunks' = t.chunks
             /\ lastOp' = [op |-> "ingest", body |-> body, before |-> Tables,
                           status |-> IF t.ok THEN Ok ELSE ServerError]
             /\ IF t.ok
                THEN /\ committed' =
                           [committed EXCEPT ![body.id] = Appended(chunks, t.chunks)]
                     /\ deleted' = deleted \ {body.id}
                     /\ cascaded' = cascaded \ {body.id}
                ELSE UNCHANGED <<committed, deleted, cascaded>>

\* app.post("/api/ingest"), called by any client with any body.
PostIngest(body) ==
    /\ lastOp = NoOp
    /\ IngestEffect(body)
    /\ UNCHANGED <<now, ingestVars, embedVars, chunkVars, askVars>>

\* app.delete("/api/documents/:id").
DeleteDocument(id) ==
    LET d == DeleteFrom(documents, chunks, id)
    IN  /\ lastOp = NoOp
        /\ documents' = d.documents
        /\ chunks' = d.chunks
        /\ lastOp' = [op |-> "delete", id |-> id, before |-> Tables, status |-> Ok]
        /\ committed' = [committed EXCEPT ![id] = << >>]
        /\ deleted' = deleted \cup {id}
        /\ cascaded' = IF \E i \in 1..Len(chunks) : chunks[i].document_id = id
                       THEN cascaded \cup {id}
                       ELSE cascaded \ {id}
        /\ UNCHANGED <<now, ingestVars, embedVars, chunkVars, askVars>>

\* app.post("/api/search").
PostSearch(queryEmbedding, topK) ==
    /\ lastOp = NoOp
    /\ lastOp' = [op |-> "search", queryEmbedding |-> queryEmbedding, topK |-> topK,
                  before |-> Tables,
                  scored |-> ScoredChunks(chunks, queryEmbedding),
                  results |-> SearchResults(chunks, queryEmbedding, topK)]
    /\ UNCHANGED <<storeVars, committed, deleted, cascaded, ingestVars, embedVars, chunkVars, askVars>>

\* app.get("/api/documents").
GetDocuments ==
    /\ lastOp = NoOp
    /\ \E docs \in ListOrders(documents) :
          lastOp' = [op |-> "list", before |-> Tables, results |-> docs]
    /\ UNCHANGED <<storeVars, committed, deleted, cascaded, ingestVars, embedVars, chunkVars, askVars>>

\* The record of the request just served is dropped (history only).
Respond ==
    /\ lastOp # NoOp
    /\ lastOp' = NoOp
    /\ UNCHANGED <<storeVars, committed, deleted, cascaded, ingestVars, embedVars, chunkVars, askVars>>


(***************************************************************************)
(* RAGService.ingestDocument: the chunking loop (ragService.ts:41-73).     *)
(* A text is a sequence of characters; JavaScript's positions count from   *)
(* 0, so the character at position i is text[i + 1].                       *)
(***************************************************************************)
chunkSize == 1000
overlap == 200
\* How far before the raw end, and how far past it, a newline is accepted.
newlineBack == 100
newlineAhead == 100
\* The same for a period followed by a space.
periodBack == 50
periodAhead == 50

\* Mutant of IndexOf: the search starts at the beginning of the text.
IndexOfFromStart(text, pattern, from) ==
    LET hits == {i \in 0..(Len(text) - Len(pattern)) :
                    \A j \in 1..Len(pattern) : text[i + j] = pattern[j]}
    IN  IF hits = {} THEN -1
        ELSE CHOOSE i \in hits : \A j \in hits : i <= j

\* String.prototype.indexOf(pattern, from): the first position at or after
\* `from` where `pattern` starts, or -1.
IndexOf(text, pattern, from) ==
    LET lo == IF from < 0 THEN 0 ELSE from
        hits == {i \in lo..(Len(text) - Len(pattern)) :
                    \A j \in 1..Len(pattern) : text[i + j] = pattern[j]}
    IN  IF hits = {} THEN -1
        ELSE CHOOSE i \in hits : \A j \in hits : i <= j

\* String.prototype.substring(from, to) for 0 <= from <= to <= length.
Substring(text, from, to) == SubSeq(text, from + 1, to)

\* The characters String.prototype.trim removes: the white space and the
\* line terminators of ECMAScript.  A character is a one-character string;
\* one that a TLA+ string cannot hold is written as its code point.
WhiteSpace ==
    {"\t", "U+000B", "\f", " ", "U+00A0", "U+FEFF",
     "U+1680", "U+2000", "U+2001", "U+2002", "U+2003", "U+2004", "U+2005",
     "U+2006", "U+2007", "U+2008", "U+2009", "U+200A", "U+202F", "U+205F",
     "U+3000",
     "\n", "\r", "U+2028", "U+2029"}

\* Mutant of Trim: trimStart, the white space at the end stays.
TrimStartOnly(text) ==
    LET inked == {i \in 1..Len(text) : text[i] \notin WhiteSpace}
    IN  IF inked = {} THEN << >>
        ELSE SubSeq(text,
                    CHOOSE i \in inked :
                        \A j \in 1..(i - 1) : text[j] \in WhiteSpace,
                    Len(text))

\* String.prototype.trim.
Trim(text) ==
    LET inked == {i \in 1..Len(text) : text[i] \notin WhiteSpace}
    IN  IF inked = {} THEN << >>
        ELSE SubSeq(text,
                    CHOOSE i \in inked :
                        \A j \in 1..(i - 1) : text[j] \in WhiteSpace,
                    CHOOSE i \in inked :
                        \A j \in (i + 1)..Len(text) : text[j] \in WhiteSpace)

MinOf(a, b) == IF a < b THEN a ELSE b

\* Mutant of WindowEnd: the window is no longer than the overlap.
WindowEndWithinOverlap(text, start) == start + overlap

\* `end` after lines 49-60 for the window that starts at `start`.
WindowEnd(text, start) ==
    LET end == start + chunkSize
    IN  IF end < Len(text)
        THEN LET nextNewline == IndexOf(text, <<"\n">>, end - newlineBack)
             IN  IF nextNewline # -1 /\ nextNewline < end + newlineAhead
                 THEN nextNewline + 1
                 ELSE LET nextPeriod == IndexOf(text, <<".", " ">>, end - periodBack)
                      IN  IF nextPeriod # -1 /\ nextPeriod < end + periodAhead
                          THEN nextPeriod + 2
                          ELSE end
        ELSE end

\* Mutant of NextStart: the next window starts where this one ends.
NextStartNoOverlap(end) == end

\* start = end - overlap (line 71).
NextStart(end) == end - overlap

\* Mutant of LoopBreaks: the loop stops a window too early.
LoopBreaksEarly(text, start) == start >= Len(text) - chunkSize

\* The test of line 72 on the new start.
LoopBreaks(text, start) == start >= Len(text) - overlap

\* One turn of the while loop, lines 49-72, for the window that starts at
\* `start`: its end, the text it yields and the next start.
Iteration(text, start) ==
    LET end == WindowEnd(text, start)
    IN  [end |-> end,
         chunkText |-> Trim(Substring(text, start, MinOf(end, Len(text)))),
         next |-> NextStart(end)]

\* The while loop of lines 48-73 from `start` on; `passages` are the chunk
\* texts pushed so far.
RECURSIVE ChunkLoop(_, _, _)
ChunkLoop(text, start, passages) ==
    IF ~(start < Len(text)) THEN passages
    ELSE LET it == Iteration(text, start)
             pushed == IF it.chunkText # << >> THEN Append(passages, it.chunkText)
                       ELSE passages
         IN  IF LoopBreaks(text, it.next) THEN pushed
             ELSE ChunkLoop(text, it.next, pushed)

\* The texts of the chunks ingestDocument builds from `text`.
ChunkTexts(text) == ChunkLoop(text, 0, << >>)

(***************************************************************************)
(* RAGService.ingestDocument: the batch loop and the commit                *)
(* (ragService.ts:77-117), one step per event.  JavaScript runs each       *)
(* continuation to completion, so what follows the settling of a call up   *)
(* to the next await is part of the step that settles it.                  *)
(***************************************************************************)
concurrentLimit == 5

\* The state keeps a string run-length encoded: "aaab" is kept as
\* <<[c |-> "a", n |-> 3], [c |-> "b", n |-> 1]>>.  Decode gives the
\* characters back, Encode is its inverse.
Run(c, n) == [i \in 1..n |-> c]
RECURSIVE Decode(_)
Decode(runs) ==
    IF runs = << >> THEN << >>
    ELSE Run(Head(runs).c, Head(runs).n) \o Decode(Tail(runs))
RECURSIVE EncodeFrom(_, _)
EncodeFrom(text, from) ==
    IF from > Len(text) THEN << >>
    ELSE LET ends == {i \in from..Len(text) :
                         i = Len(text) \/ text[i + 1] # text[from]}
             to == CHOOSE i \in ends : \A j \in ends : i <= j
         IN  <<[c |-> text[from], n |-> to - from + 1]>> \o EncodeFrom(text, to + 1)
Encode(text) == EncodeFrom(text, 1)

\* The texts handed to ingestDocument (encoded): texts of white space, a
\* short text, and runs of one letter that yield 2 and
\* 5 * (MaxWindows - 1) + 1 chunks.
LengthFor(n) == (chunkSize - overlap) * (n - 1) + overlap + 1
IngestTexts ==
    {<< >>,
     <<[c |-> " ", n |-> 1], [c |-> "\n", n |-> 1], [c |-> "\f", n |-> 1],
       [c |-> "U+00A0", n |-> 1]>>,
     <<[c |-> " ", n |-> 1], [c |-> "a", n |-> 2], [c |-> " ", n |-> 1]>>,
     <<[c |-> "a", n |-> LengthFor(2)]>>,
     <<[c |-> "a", n |-> LengthFor(concurrentLimit * (MaxWindows - 1) + 1)]>>}
\* The vectors POST /api/embed answers with.
EmbedVectors == {<<1, 0>>}
NoArgs == [text |-> << >>, source |-> "", type |-> "", onProgress |-> FALSE]

\* Mutant of Batch: no window, every remaining chunk at once.
BatchAll(n, i) == (i + 1)..n

\* chunks.slice(i, i + concurrentLimit), as positions 1..n of chunks.
Batch(n, i) == (i + 1)..MinOf(i + concurrentLimit, n)

\* Mutant of PromiseAll: Promise.allSettled, which never rejects.
PromiseAllSettled(cs, batch) ==
    IF \A k \in batch : cs[k] \in {"ok", "failed"} THEN "fulfilled" ELSE "pending"

\* Promise.all over the calls of `batch`: rejected as soon as one call has
\* failed, fulfilled once all have succeeded.
PromiseAll(cs, batch) ==
    IF \E k \in batch : cs[k] = "failed" THEN "rejected"
    ELSE IF \A k \in batch : cs[k] = "ok" THEN "fulfilled"
    ELSE "pending"

\* Mutant of ProgressValue: the chunks of earlier windows are not counted.
ProgressValueOfBatch(i, batchLength, n) ==
    IF batchLength * 100 > 100 * n THEN [num |-> 100, den |-> 1]
    ELSE [num |-> batchLength * 100, den |-> n]

\* The value of line 93, Math.min(((i + batch.length) / chunks.length) * 100,
\* 100), as the fraction num / den.
ProgressValue(i, batchLength, n) ==
    IF (i + batchLength) * 100 > 100 * n THEN [num |-> 100, den |-> 1]
    ELSE [num |-> (i + batchLength) * 100, den |-> n]

\* response.ok.
ResponseOk(status) == status >= 200 /\ status <= 299

\* The body of the POST /api/ingest of lines 100-109.
CommitBody ==
    [id |-> ingDocId, name |-> ingArgs.source, type |-> ingArgs.type,
     chunks |-> ArrayChunks(ingChunks)]

\* ingestDocument(text, source, type, onProgress) is called: lines 39-45.
StartIngest(text, src, type, callback) ==
    /\ pc \in {"Idle", "Done", "Failed"}
    /\ requests < MaxRequests
    /\ requests' = requests + 1
    /\ pc' = "Chunking"
    /\ visited' = <<"Idle", "Chunking">>
    /\ ingDocId' = DocUuid(requests + 1)
    /\ ingArgs' = [text |-> text, source |-> src, type |-> type,
                   onProgress |-> callback]
    /\ ingChunks' = << >>
    /\ calls' = << >>
    /\ winStart' = 0
    /\ progress' = << >>
    /\ commits' = 0
    /\ lastOp' = NoOp
    /\ UNCHANGED <<storeVars, committed, deleted, cascaded, embedVars, chunkVars, askVars>>

\* The chunking loop, lines 46-75.
ChunkText ==
    /\ pc = "Chunking"
    /\ LET texts == ChunkTexts(Decode(ingArgs.text))
       IN  /\ ingChunks' =
                 [k \in 1..Len(texts) |->
                     [id |-> ChunkUuid(requests, k), text |-> Encode(texts[k]),
                      metadata |-> [source |-> ingArgs.source],
                      embedding |-> NoEmbedding]]
           /\ calls' = [k \in 1..Len(texts) |-> "idle"]
    /\ winStart' = 0
    /\ pc' = "Embedding"
    /\ visited' = Append(visited, "Embedding")
    /\ UNCHANGED <<storeVars, histVars, ingDocId, ingArgs, progress, commits,
                   requests, embedVars, chunkVars, askVars>>

\* One turn of the batch loop begins, lines 79-86: every call of the batch
\* is issued.
StartWindow ==
    /\ pc = "Embedding"
    /\ winStart < Len(ingChunks)
    /\ \A k \in Batch(Len(ingChunks), winStart) : calls[k] = "idle"
    /\ calls' = [k \in 1..Len(calls) |->
                    IF k \in Batch(Len(ingChunks), winStart) THEN "inflight"
                    ELSE calls[k]]
    /\ UNCHANGED <<storeVars, histVars, pc, ingDocId, ingArgs, ingChunks, winStart,
                   progress, visited, commits, requests, embedVars, chunkVars, askVars>>

\* What ingestDocument does when a call of its batch has settled and the
\* calls are `cs`: lines 84-94.
AfterSettle(cs) ==
    LET batch == Batch(Len(ingChunks), winStart)
        all == IF pc = "Embedding" THEN PromiseAll(cs, batch) ELSE "pending"
    IN  /\ pc' = IF all = "rejected" THEN "Failed" ELSE pc
        /\ visited' = IF all = "rejected" THEN Append(visited, "Failed") ELSE visited
        /\ winStart' = IF all = "fulfilled" THEN winStart + concurrentLimit
                       ELSE winStart
        /\ progress' =
              IF all = "fulfilled" /\ ingArgs.onProgress
              THEN Append(progress,
                          ProgressValue(winStart, Cardinality(batch), Len(ingChunks)))
              ELSE progress

\* createEmbeddings of chunk k returns the embedding v (line 85).
EmbedResolves(k, v) ==
    /\ k \in 1..Len(calls)
    /\ calls[k] = "inflight"
    /\ calls' = [calls EXCEPT ![k] = "ok"]
    /\ ingChunks' = [ingChunks EXCEPT ![k].embedding = ArrayEmbedding(v)]
    /\ AfterSettle(calls')
    /\ UNCHANGED <<storeVars, histVars, ingDocId, ingArgs, commits, requests,
                   embedVars, chunkVars, askVars>>

\* createEmbeddings of chunk k throws: the response is not ok, or fetch fails
\* (ragService.ts:27-36).
EmbedRejects(k) ==
    /\ k \in 1..Len(calls)
    /\ calls[k] = "inflight"
    /\ calls' = [calls EXCEPT ![k] = "failed"]
    /\ AfterSettle(calls')
    /\ UNCHANGED <<storeVars, histVars, ingDocId, ingArgs, ingChunks, commits,
                   requests, embedVars, chunkVars, askVars>>

\* The batch loop is over: fetch("/api/ingest") is issued, lines 97-109.
IssueCommit ==
    /\ pc = "Embedding"
    /\ ~(winStart < Len(ingChunks))
    /\ pc' = "Persisting"
    /\ visited' = Append(visited, "Persisting")
    /\ commits' = commits + 1
    /\ UNCHANGED <<storeVars, histVars, ingDocId, ingArgs, ingChunks, winStart,
                   calls, progress, requests, embedVars, chunkVars, askVars>>

\* The server runs app.post("/api/ingest") on the request's body.
ServeCommit ==
    /\ pc = "Persisting"
    /\ lastOp = NoOp
    /\ IngestEffect(CommitBody)
    /\ UNCHANGED <<now, ingestVars, embedVars, chunkVars, askVars>>

\* The response arrives, lines 111-117.
FinishCommit ==
    /\ pc = "Persisting"
    /\ lastOp # NoOp
    /\ pc' = IF ResponseOk(lastOp.status) THEN "Done" ELSE "Failed"
    /\ visited' = Append(visited, pc')
    /\ UNCHANGED <<storeVars, histVars, ingDocId, ingArgs, ingChunks, winStart,
                   calls, progress, commits, requests, embedVars, chunkVars, askVars>>

\* fetch("/api/ingest") rejects (line 100): the request was lost before the
\* server ran the handler, or the handler ran and its response was lost.  The
\* await throws and ingestDocument rejects.
CommitRejects ==
    /\ pc = "Persisting"
    /\ pc' = "Failed"
    /\ visited' = Append(visited, "Failed")
    /\ UNCHANGED <<storeVars, histVars, ingDocId, ingArgs, ingChunks, winStart,
                   calls, progress, commits, requests, embedVars, chunkVars, askVars>>

(***************************************************************************)
(* getEmbedder and app.post("/api/embed") (server.ts:10-16, 73-83), one    *)
(* step per event: a request's handler runs until its next await.          *)
(*   embedder    0 for null, n for the model the n-th pipeline(...) built  *)
(*   epc[r].at   "new": not yet arrived; "pipeline": awaiting line 13;     *)
(*               "embedFunc": awaiting line 77; "ok": answered 200;        *)
(*               "error": answered 500                                     *)
(***************************************************************************)
EmbedRequests == 1..MaxEmbedRequests

\* The test `!embedder` of line 12, for the value e of embedder.
EmbedderMissing(e) == e = 0

\* The handler starts: line 76 calls getEmbedder, which either starts
\* pipeline(...) and awaits it, or returns embedder, and then line 77 calls
\* the model.
EmbedArrives(r) ==
    /\ epc[r].at = "new"
    /\ IF EmbedderMissing(embedder)
       THEN /\ pipelineCalls' = pipelineCalls + 1
            /\ epc' = [epc EXCEPT ![r] = [at |-> "pipeline", fn |-> pipelineCalls + 1]]
       ELSE /\ pipelineCalls' = pipelineCalls
            /\ epc' = [epc EXCEPT ![r] = [at |-> "embedFunc", fn |-> embedder]]
    /\ UNCHANGED <<embedder, storeVars, histVars, ingestVars, chunkVars, askVars>>

\* pipeline(...) returns the model it built: line 13 assigns it, line 15
\* returns embedder, line 77 calls it.
PipelineResolves(r) ==
    /\ epc[r].at = "pipeline"
    /\ embedder' = epc[r].fn
    /\ epc' = [epc EXCEPT ![r] = [at |-> "embedFunc", fn |-> embedder']]
    /\ UNCHANGED <<pipelineCalls, storeVars, histVars, ingestVars, chunkVars, askVars>>

\* pipeline(...) throws: the handler's catch answers 500 (lines 79-82).
PipelineRejects(r) ==
    /\ epc[r].at = "pipeline"
    /\ epc' = [epc EXCEPT ![r].at = "error"]
    /\ UNCHANGED <<embedder, pipelineCalls, storeVars, histVars, ingestVars, chunkVars, askVars>>

\* embedFunc(text, ...) returns: line 78 answers with the embedding.
EmbedFuncResolves(r) ==
    /\ epc[r].at = "embedFunc"
    /\ epc' = [epc EXCEPT ![r].at = "ok"]
    /\ UNCHANGED <<embedder, pipelineCalls, storeVars, histVars, ingestVars, chunkVars, askVars>>

\* embedFunc(text, ...) throws: the handler's catch answers 500.
EmbedFuncRejects(r) ==
    /\ epc[r].at = "embedFunc"
    /\ epc' = [epc EXCEPT ![r].at = "error"]
    /\ UNCHANGED <<embedder, pipelineCalls, storeVars, histVars, ingestVars, chunkVars, askVars>>

(***************************************************************************)
(* The chunking loop of ingestDocument (ragService.ts:46-73), one step per *)
(* turn of the while loop.  ckWindows records the start and the end of     *)
(* every turn.                                                             *)
(***************************************************************************)
\* ingestDocument is called with `text` (encoded): lines 44-48, up to the
\* first test of the while.
BeginChunking(text) ==
    /\ ckAt = "idle"
    /\ ckText' = text
    /\ ckStart' = 0
    /\ ckChunks' = << >>
    /\ ckWindows' = << >>
    /\ ckAt' = IF 0 < Len(Decode(text)) THEN "loop" ELSE "done"
    /\ UNCHANGED <<storeVars, histVars, ingestVars, embedVars, askVars>>

\* One turn of the while loop, lines 49-72, and the test of the while that
\* follows it.
ChunkIterate ==
    /\ ckAt = "loop"
    /\ LET text == Decode(ckText)
           it == Iteration(text, ckStart)
       IN  /\ ckChunks' = IF it.chunkText # << >>
                          THEN Append(ckChunks, Encode(it.chunkText))
                          ELSE ckChunks
           /\ ckWindows' = Append(ckWindows, [start |-> ckStart, end |-> it.end])
           /\ ckStart' = it.next
           /\ ckAt' = IF LoopBreaks(text, it.next) \/ ~(it.next < Len(text))
                      THEN "done" ELSE "loop"
    /\ UNCHANGED <<ckText, storeVars, histVars, ingestVars, embedVars, askVars>>

(***************************************************************************)
(* The clock behind created_at (server.ts:37): CURRENT_TIMESTAMP has a     *)
(* resolution of one second, so any number of requests is served between   *)
(* two of its values.                                                      *)
(***************************************************************************)
Tick ==
    /\ now < MaxClock
    /\ now' = now + 1
    /\ UNCHANGED <<documents, chunks, histVars, ingestVars, embedVars, chunkVars, askVars>>

(***************************************************************************)
(* RAGService.search and RAGService.ask (ragService.ts:119-172) with the   *)
(* handlers of POST /api/search and POST /api/chat: one step per await of  *)
(* the client, and one for the run of the search handler, which reads the  *)
(* table before the client resumes.  The embedding of the question, the    *)
(* status of a response, the loss of a request or of a response, and the   *)
(* text of the provider are chosen by the environment.                     *)
(***************************************************************************)
\* topK when search is called without one.
AskTopK == 4

\* The `content` of the provider's message: null or a string.
NullContent == [kind |-> "null"]
StringContent(str) == [kind |-> "string", s |-> str]
ChatContents == {NullContent, StringContent(""), StringContent("See the handbook.")}

\* The questions and the histories ask is called with.
Questions == {"How many days off?"}
Histories ==
    {<< >>,
     <<[role |-> "user", text |-> "Hello"], [role |-> "model", text |-> "Hi"]>>}

\* Lines 150-155: the history with `model` renamed to `assistant`, followed
\* by the question.
Messages(question, history) ==
    Append([i \in 1..Len(history) |->
               [role |-> IF history[i].role = "model" THEN "assistant" ELSE "user",
                content |-> history[i].text]],
           [role |-> "user", content |-> question])

\* res.json(results) read back by response.json(): JSON has no NaN, a
\* score that is NaN arrives as null.
ResJson(results) ==
    [i \in 1..Len(results) |->
        IF results[i].score.nan THEN [results[i] EXCEPT !.score = [null |-> TRUE]]
        ELSE results[i]]

\* Mutant of Answer: data.text ?? "No response generated.", an empty text
\* is kept.
AnswerUnlessNull(data) ==
    IF data.text = NullContent THEN "No response generated." ELSE data.text.s

\* data.text || "No response generated." (line 169): null and "" are
\* falsy.
Answer(data) ==
    IF data.text = NullContent \/ data.text = StringContent("")
    THEN "No response generated."
    ELSE data.text.s

NoResult == [kind |-> "none"]
Step(name, ok) == [step |-> name, ok |-> ok]

\* ask(question, history) is called: line 133 calls search, whose line 120
\* calls createEmbeddings, which posts the question to /api/embed.
StartAsk(question, history) ==
    /\ askAt = "idle"
    /\ askAt' = "embedding"
    /\ askArgs' = [question |-> question, history |-> history]
    /\ askQuery' = << >>
    /\ askServed' = NoResult
    /\ askSources' = << >>
    /\ askMessages' = << >>
    /\ askData' = NoResult
    /\ askOut' = NoResult
    /\ askSteps' = << >>
    /\ UNCHANGED <<storeVars, histVars, ingestVars, embedVars, chunkVars>>

\* /api/embed answers 200 with the embedding v: createEmbeddings returns it
\* and search posts it with topK to /api/search (lines 120-126).
AskEmbedResolves(v) ==
    /\ askAt = "embedding"
    /\ askAt' = "searching"
    /\ askQuery' = v
    /\ askSteps' = Append(askSteps, Step("embed", TRUE))
    /\ UNCHANGED <<askArgs, askServed, askSources, askMessages, askData, askOut,
                   storeVars, histVars, ingestVars, embedVars, chunkVars>>

\* fetch("/api/embed") rejects, or its response is not ok: createEmbeddings
\* throws (lines 27-29, 33-36), and so do search and ask, which catch
\* nothing.
AskEmbedRejects ==
    /\ askAt = "embedding"
    /\ askAt' = "failed"
    /\ askOut' = [kind |-> "error"]
    /\ askSteps' = Append(askSteps, Step("embed", FALSE))
    /\ UNCHANGED <<askArgs, askQuery, askServed, askSources, askMessages, askData,
                   storeVars, histVars, ingestVars, embedVars, chunkVars>>

\* The server runs the handler of POST /api/search on the body search has
\* posted (server.ts:150-183) and answers 200 with its results; the client
\* still awaits the response.
SearchHandlerAnswers ==
    /\ askAt = "searching"
    /\ askServed = NoResult
    /\ askServed' = [status |-> Ok, rows |-> Len(chunks),
                     results |-> ResJson(SearchResults(chunks, askQuery, AskTopK))]
    /\ UNCHANGED <<askAt, askArgs, askQuery, askSources, askMessages, askData,
                   askOut, askSteps,
                   storeVars, histVars, ingestVars, embedVars, chunkVars>>

\* The request of search is answered with a status that is not ok, here
\* 500; the client still awaits the response.
SearchAnswersNotOk ==
    /\ askAt = "searching"
    /\ askServed = NoResult
    /\ askServed' = [status |-> ServerError, rows |-> Len(chunks), results |-> << >>]
    /\ UNCHANGED <<askAt, askArgs, askQuery, askSources, askMessages, askData,
                   askOut, askSteps,
                   storeVars, histVars, ingestVars, embedVars, chunkVars>>

\* What ask does once search has returned `found`: lines 134-161, up to the
\* post to /api/chat.
AskContinues(found) ==
    /\ askAt' = "chatting"
    /\ askSources' = found
    /\ askMessages' = Messages(askArgs.question, askArgs.history)

\* The response of POST /api/search arrives and is ok: search returns the
\* results it carries (line 129) and ask goes on to the chat call.
AskSearchOk ==
    /\ askAt = "searching"
    /\ askServed # NoResult
    /\ ResponseOk(askServed.status)
    /\ AskContinues(askServed.results)
    /\ askSteps' = Append(askSteps, Step("search", TRUE))
    /\ UNCHANGED <<askArgs, askQuery, askServed, askData, askOut,
                   storeVars, histVars, ingestVars, embedVars, chunkVars>>

\* The response of POST /api/search arrives and is not ok: search returns
\* [] (line 128) and ask goes on to the chat call.
AskSearchNotOk ==
    /\ askAt = "searching"
    /\ askServed # NoResult
    /\ ~ResponseOk(askServed.status)
    /\ AskContinues(<< >>)
    /\ askSteps' = Append(askSteps, Step("search", FALSE))
    /\ UNCHANGED <<askArgs, askQuery, askServed, askData, askOut,
                   storeVars, histVars, ingestVars, embedVars, chunkVars>>

\* fetch("/api/search") rejects (line 122): the request was lost before the
\* handler ran, or the handler ran and its response was lost.  The await
\* throws, search and ask reject, and no chat request is made.
AskSearchRejects ==
    /\ askAt = "searching"
    /\ askAt' = "failed"
    /\ askOut' = [kind |-> "error"]
    /\ askSteps' = Append(askSteps, Step("search", FALSE))
    /\ UNCHANGED <<askArgs, askQuery, askServed, askSources, askMessages, askData,
                   storeVars, histVars, ingestVars, embedVars, chunkVars>>

\* The handler of POST /api/chat got `content` from the provider and
\* answers 200 with { text: content } (server.ts:86-94); ask returns the
\* answer and the sources (lines 163-171).
AskChatOk(content) ==
    /\ askAt = "chatting"
    /\ askAt' = "done"
    /\ askData' = [text |-> content]
    /\ askOut' = [kind |-> "result", answer |-> Answer(askData'),
                  sources |-> askSources]
    /\ askSteps' = Append(askSteps, Step("chat", TRUE))
    /\ UNCHANGED <<askArgs, askQuery, askServed, askSources, askMessages,
                   storeVars, histVars, ingestVars, embedVars, chunkVars>>

\* The provider call threw and the handler answers 500 (server.ts:95-98),
\* so that ask throws (lines 159-161); or fetch("/api/chat") rejects and the
\* await of line 157 throws.
AskChatNotOk ==
    /\ askAt = "chatting"
    /\ askAt' = "failed"
    /\ askOut' = [kind |-> "error"]
    /\ askSteps' = Append(askSteps, Step("chat", FALSE))
    /\ UNCHANGED <<askArgs, askQuery, askServed, askSources, askMessages, askData,
                   storeVars, histVars, ingestVars, embedVars, chunkVars>>

\* The caller has taken the result; the next ask may start.
AskReturns ==
    /\ askAt \in {"done", "failed"}
    /\ askAt' = "idle"
    /\ UNCHANGED <<askArgs, askQuery, askServed, askSources, askMessages, askData,
                   askOut, askSteps,
                   storeVars, histVars, ingestVars, embedVars, chunkVars>>

(***************************************************************************)
(* The specifications.                                                     *)
(***************************************************************************)
\* The values topK takes: the body's, or the default.
TopKs == (0..MaxTopK) \cup {DefaultTopK}

\* The ids of the rows of a table.
IdsOf(rows) == {rows[i].id : i \in 1..Len(rows)}

\* The rows of document d among `rows`, in order.
RowsOf(rows, d) ==
    LET Mine(r) == r.document_id = d
    IN  SelectSeq(rows, Mine)

\* new Database("hr_policy.db") (server.ts:24) opens the file an earlier run
\* of the server has left, if there is one, and lines 32-47 create the tables
\* only if they do not exist: the server starts on the rows the earlier run
\* committed.  An earlier run is the Ingest requests it committed, each with
\* the second of its commit, counted from the start of this run.
EarlierIngest(id, items, t) ==
    [body |-> [id |-> id, name |-> "h.txt", type |-> "text/plain",
               chunks |-> ArrayChunks(items)],
     at |-> t]
EarlierEntry ==
    [id |-> "c1", text |-> <<"p">>, metadata |-> [source |-> "h.txt"],
     embedding |-> ArrayEmbedding(<<1, 0>>)]
EarlierRuns ==
    {<< >>,
     <<EarlierIngest("d1", <<EarlierEntry>>, -2)>>,
     <<EarlierIngest("d1", << >>, -2), EarlierIngest("d2", << >>, -1)>>}

\* The tables after the commits of `run`.
RECURSIVE TablesAfter(_)
TablesAfter(run) ==
    IF run = << >> THEN [documents |-> << >>, chunks |-> << >>]
    ELSE LET n == Len(run)
             before == TablesAfter(SubSeq(run, 1, n - 1))
             t == Transaction(before.documents, before.chunks, run[n].body, run[n].at)
         IN  [documents |-> t.documents, chunks |-> t.chunks]

InitStore ==
    /\ \E run \in EarlierRuns :
          /\ documents = TablesAfter(run).documents
          /\ chunks = TablesAfter(run).chunks
    /\ now = 0
    /\ lastOp = NoOp
    /\ committed = [d \in AllDocIds |-> RowsOf(chunks, d)]
    /\ deleted = {}
    /\ cascaded = {}

InitIngest ==
    /\ pc = "Idle"
    /\ ingDocId = ""
    /\ ingArgs = NoArgs
    /\ ingChunks = << >>
    /\ winStart = 0
    /\ calls = << >>
    /\ progress = << >>
    /\ visited = <<"Idle">>
    /\ commits = 0
    /\ requests = 0

InitEmbed ==
    /\ embedder = 0
    /\ pipelineCalls = 0
    /\ epc = [r \in EmbedRequests |-> [at |-> "new", fn |-> 0]]

InitChunker ==
    /\ ckAt = "idle"
    /\ ckText = << >>
    /\ ckStart = 0
    /\ ckChunks = << >>
    /\ ckWindows = << >>

InitAsk ==
    /\ askAt = "idle"
    /\ askArgs = [question |-> "", history |-> << >>]
    /\ askQuery = << >>
    /\ askServed = NoResult
    /\ askSources = << >>
    /\ askMessages = << >>
    /\ askData = NoResult
    /\ askOut = NoResult
    /\ askSteps = << >>

Init == InitStore /\ InitIngest /\ InitEmbed /\ InitChunker /\ InitAsk

Next ==
    \/ \E body \in IngestBodies : PostIngest(body)
    \/ \E id \in DocIds : DeleteDocument(id)
    \/ \E q \in Vectors, topK \in TopKs : PostSearch(q, topK)
    \/ GetDocuments
    \/ Respond

Spec == Init /\ [][Next]_vars

NextIngest ==
    \/ \E text \in IngestTexts, src \in Names \cup {""}, type \in Types,
          callback \in BOOLEAN : StartIngest(text, src, type, callback)
    \/ ChunkText
    \/ StartWindow
    \/ \E k \in 1..Len(calls), v \in EmbedVectors : EmbedResolves(k, v)
    \/ \E k \in 1..Len(calls) : EmbedRejects(k)
    \/ IssueCommit
    \/ ServeCommit
    \/ FinishCommit
    \/ CommitRejects

SpecIngest == Init /\ [][NextIngest]_vars

NextEmbed ==
    \/ \E r \in EmbedRequests : EmbedArrives(r)
    \/ \E r \in EmbedRequests : PipelineResolves(r)
    \/ \E r \in EmbedRequests : PipelineRejects(r)
    \/ \E r \in EmbedRequests : EmbedFuncResolves(r)
    \/ \E r \in EmbedRequests : EmbedFuncRejects(r)

SpecEmbed == Init /\ [][NextEmbed]_vars

\* SpecSearch: one Ingest fills the store with up to MaxRows chunks whose
\* embeddings are any of SearchVectors, then Search requests with any of
\* these as the query and any topK, negative ones included, are served.
SearchTopKs == ((-1)..MaxTopK) \cup {DefaultTopK}
RowId(k) == "r" \o ToString(k)
SearchBodies ==
    {[id |-> "d1", name |-> "h.txt", type |-> "text/plain",
      chunks |-> ArrayChunks([k \in 1..Len(vs) |->
                     [id |-> RowId(k), text |-> <<"p">>,
                      metadata |-> [source |-> "h.txt"],
                      embedding |-> ArrayEmbedding(vs[k])]])] :
        vs \in SeqUpTo(SearchVectors, MaxRows)}

NextSearch ==
    \/ \E body \in SearchBodies : documents = << >> /\ PostIngest(body)
    \/ \E q \in SearchVectors, topK \in SearchTopKs : PostSearch(q, topK)
    \/ Respond

SpecSearch == Init /\ [][NextSearch]_vars

\* SpecChunker: the chunking loop on texts made of a run of "a", a
\* separator and a run of "b".  The separator falls before, at and behind
\* the ends of the ranges in which the first window looks for a newline
\* (positions 900..1099) and for a period (positions 950..1049).
HeadLengths == {0, 1, 899, 900, 949, 950, 1049, 1050, 1099, 1100}
Separators ==
    {<< >>, <<[c |-> "\n", n |-> 1]>>, <<[c |-> " ", n |-> 1]>>,
     <<[c |-> "\f", n |-> 1]>>,
     <<[c |-> ".", n |-> 1], [c |-> " ", n |-> 1]>>}
TailLengths == {0, 2, 201, 1500}
Letters(c, n) == IF n = 0 THEN << >> ELSE <<[c |-> c, n |-> n]>>
ChunkerTexts ==
    {Letters("a", h) \o sep \o Letters("b", t) :
        h \in HeadLengths, sep \in Separators, t \in TailLengths}

NextChunker ==
    \/ \E text \in ChunkerTexts : BeginChunking(text)
    \/ ChunkIterate

SpecChunker == Init /\ [][NextChunker]_vars

\* SpecList: documents are ingested and deleted while the clock moves on,
\* and listed.
ListBodies ==
    {b \in CompleteBodies : b.chunks.kind = "array" /\ b.chunks.items = << >>}

NextList ==
    \/ Tick
    \/ \E body \in ListBodies : PostIngest(body)
    \/ \E id \in DocIds : DeleteDocument(id)
    \/ GetDocuments
    \/ Respond

SpecList == Init /\ [][NextList]_vars

\* SpecAsk: one Ingest fills the store with up to MaxAskRows chunks, and ask
\* requests run one after the other.
AskBodies ==
    {[id |-> "d1", name |-> "h.txt", type |-> "text/plain",
      chunks |-> ArrayChunks([k \in 1..Len(vs) |->
                     [id |-> RowId(k), text |-> <<"p">>,
                      metadata |-> [source |-> "h.txt"],
                      embedding |-> ArrayEmbedding(vs[k])]])] :
        vs \in SeqUpTo(AskVectors, MaxAskRows)}

NextAsk ==
    \/ \E body \in AskBodies : documents = << >> /\ PostIngest(body)
    \/ Respond
    \/ \E question \in Questions, history \in Histories : StartAsk(question, history)
    \/ \E v \in AskVectors : AskEmbedResolves(v)
    \/ AskEmbedRejects
    \/ SearchHandlerAnswers
    \/ SearchAnswersNotOk
    \/ AskSearchOk
    \/ AskSearchNotOk
    \/ AskSearchRejects
    \/ \E content \in ChatContents : AskChatOk(content)
    \/ AskChatNotOk
    \/ AskReturns

SpecAsk == Init /\ [][NextAsk]_vars

(***************************************************************************)
(* Properties of the store, checked under Spec.                            *)
(***************************************************************************)
\* An entry of an Ingest body that carries a usable embedding: neither absent
\* nor a non-array value.
ValidEntry(e) == e.embedding # NoEmbedding /\ e.embedding # NotArrayEmbedding

\* The chunk rows a body should leave for its valid entries, in input order.
ExpectedRows(body) ==
    LET valid == SelectSeq(body.chunks.items, ValidEntry)
    IN  [i \in 1..Len(valid) |->
            [id |-> valid[i].id, document_id |-> body.id, text |-> valid[i].text,
             metadata |-> JsonStringify(valid[i].metadata),
             embedding |-> valid[i].embedding.v]]

\* The body carries an id, a name and an array of chunks.
WellFormed(body) ==
    body.id # "" /\ body.name # "" /\ body.chunks.kind = "array"

\* A valid entry of the body whose id is already a persisted chunk's or an
\* earlier valid entry's.
ChunkIdCollides(body, tables) ==
    LET items == body.chunks.items
    IN  \E k \in 1..Len(items) :
           /\ ValidEntry(items[k])
           /\ \/ items[k].id \in IdsOf(tables.chunks)
              \/ \E j \in 1..(k - 1) :
                    ValidEntry(items[j]) /\ items[j].id = items[k].id

\* The Ingest just served was well formed and met no key that is in use.
IngestWithoutConflict ==
    /\ lastOp.op = "ingest"
    /\ WellFormed(lastOp.body)
    /\ lastOp.body.id \notin IdsOf(lastOp.before.documents)
    /\ ~ChunkIdCollides(lastOp.body, lastOp.before)

\* The Ingest just served carried an entry without a valid embedding.
IngestWithInvalidEntry ==
    /\ lastOp.op = "ingest"
    /\ lastOp.body.chunks.kind = "array"
    /\ \E k \in 1..Len(lastOp.body.chunks.items) :
          ~ValidEntry(lastOp.body.chunks.items[k])

\* C5: an Ingest with entries whose embedding is missing or not an array
\* (and that meets no key in use) succeeds, adds the Document row, and adds
\* exactly one chunk row per valid entry, in input order, and none for the
\* invalid entries.
C5_InvalidEntriesSkipped ==
    (IngestWithInvalidEntry /\ IngestWithoutConflict) =>
        /\ lastOp.status = Ok
        /\ Len(documents) = Len(lastOp.before.documents) + 1
        /\ documents[Len(documents)].id = lastOp.body.id
        /\ documents[Len(documents)].name = lastOp.body.name
        /\ SubSeq(documents, 1, Len(documents) - 1) = lastOp.before.documents
        /\ chunks = lastOp.before.chunks \o ExpectedRows(lastOp.body)

\* Witness of C5: a successful Ingest of one valid and one invalid entry.
C5_Witness ==
    /\ IngestWithInvalidEntry
    /\ IngestWithoutConflict
    /\ \E k \in 1..Len(lastOp.body.chunks.items) :
          ValidEntry(lastOp.body.chunks.items[k])
    /\ Len(chunks) = Len(lastOp.before.chunks) + 1

\* C6 as claimed: all persisted embeddings have one length.
C6_UniformDimension ==
    \A i, j \in 1..Len(chunks) :
        Len(chunks[i].embedding) = Len(chunks[j].embedding)

\* C7: every chunk row references exactly one document row that exists.
C7_NoOrphanChunk ==
    \A i \in 1..Len(chunks) :
        Cardinality(DocIndex(documents, chunks[i].document_id)) = 1

\* Witness of C7: a delete has removed the chunks of one document and left
\* those of another.
C7_Witness ==
    /\ lastOp.op = "delete"
    /\ Len(chunks) < Len(lastOp.before.chunks)
    /\ Len(chunks) > 0

\* C8: once DeleteDocument(d) has succeeded and until d is ingested again,
\* no Search returns a chunk stored for d and no ListDocuments returns d.
C8_DeletedNeverReturned ==
    /\ lastOp.op = "search" =>
          \A k \in 1..Len(lastOp.results) :
              \A i \in 1..Len(lastOp.before.chunks) :
                  lastOp.before.chunks[i].id = lastOp.results[k].id =>
                      lastOp.before.chunks[i].document_id \notin deleted
    /\ lastOp.op = "list" =>
          \A k \in 1..Len(lastOp.results) : lastOp.results[k].id \notin deleted

\* Witness of C8: a Search that returns chunks after a delete has removed
\* the chunks of a document.
C8_Witness ==
    /\ lastOp.op = "search"
    /\ cascaded # {}
    /\ Len(lastOp.results) > 0

\* C9: for every document d, the rows of d a Search scans are all the rows
\* d's Ingest committed when d exists, and none otherwise.
C9_SearchSeesWholeDocuments ==
    lastOp.op = "search" =>
        \A d \in AllDocIds :
            RowsOf(lastOp.before.chunks, d) =
                IF d \in IdsOf(lastOp.before.documents) THEN committed[d] ELSE << >>

\* Witness of C9: a Search that scans a document of two chunks next to a
\* document id that was deleted.
C9_Witness ==
    /\ lastOp.op = "search"
    /\ deleted # {}
    /\ \E d \in AllDocIds : Len(RowsOf(lastOp.before.chunks, d)) = 2

\* C10: an Ingest whose transaction fails leaves both tables as they were;
\* and the transaction does fail, with status 500, when the document id
\* exists, when chunks is not iterable, or when a chunk id collides.
C10_FailedIngestChangesNothing ==
    lastOp.op = "ingest" =>
        /\ lastOp.status = ServerError =>
              documents = lastOp.before.documents /\ chunks = lastOp.before.chunks
        /\ ( /\ ~MissingFields(lastOp.body)
             /\ \/ lastOp.body.id \in IdsOf(lastOp.before.documents)
                \/ lastOp.body.chunks = NotIterableChunks
                \/ ( /\ lastOp.body.chunks.kind = "array"
                     /\ ChunkIdCollides(lastOp.body, lastOp.before) ) )
           => lastOp.status = ServerError

\* Witness of C10: a failed Ingest whose document id was free and whose
\* first entry could be inserted, so that rows were written before the throw.
C10_Witness ==
    /\ lastOp.op = "ingest"
    /\ lastOp.status = ServerError
    /\ lastOp.body.id \notin IdsOf(lastOp.before.documents)
    /\ lastOp.body.chunks.kind = "array"
    /\ Len(lastOp.body.chunks.items) >= 2
    /\ ValidEntry(lastOp.body.chunks.items[1])
    /\ lastOp.body.chunks.items[1].id \notin IdsOf(lastOp.before.chunks)

\* C11 as claimed: an Ingest whose id or name is absent, or whose chunks is
\* absent or is not an array of entries, is answered 400 and leaves both
\* tables as they were.
C11_MalformedRejected ==
    (lastOp.op = "ingest" /\ ~WellFormed(lastOp.body)) =>
        /\ lastOp.status = BadRequest
        /\ documents = lastOp.before.documents
        /\ chunks = lastOp.before.chunks

(***************************************************************************)
(* Properties of ingestDocument, checked under SpecIngest.                 *)
(***************************************************************************)
\* The calls of the current request in the state st.
CallsIn(st) == {k \in 1..Len(calls) : calls[k] = st}

\* C1: the commit is issued only when every embed call of the request has
\* succeeded and every chunk carries its embedding; and once an embed call
\* has failed the request is Failed, has issued no commit, and the store
\* holds neither its document nor any of its chunks.
C1_CommitOnlyAfterAllEmbeds ==
    /\ commits > 0 =>
          \A k \in 1..Len(calls) :
              calls[k] = "ok" /\ ingChunks[k].embedding.kind = "array"
    /\ CallsIn("failed") # {} =>
          /\ pc = "Failed"
          /\ commits = 0
          /\ ingDocId \notin IdsOf(documents)
          /\ \A i \in 1..Len(chunks) :
                /\ chunks[i].document_id # ingDocId
                /\ \A k \in 1..Len(ingChunks) : chunks[i].id # ingChunks[k].id

\* Witness of C1: one call of a window has failed, every other call of the
\* window has then succeeded, and an earlier document is in the store.
C1_Witness ==
    /\ CallsIn("failed") # {}
    /\ CallsIn("ok") # {}
    /\ CallsIn("inflight") = {}
    /\ Len(documents) > 0

\* C3: at most 5 embed calls of the request are in flight, and a call of a
\* later window has been started only if every call of every earlier window
\* has completed.
C3_BoundedWindow ==
    /\ Cardinality(CallsIn("inflight")) <= 5
    /\ \A j, k \in 1..Len(calls) :
          ((j - 1) \div 5 < (k - 1) \div 5 /\ calls[k] # "idle") =>
              calls[j] \in {"ok", "failed"}

\* Witness of C3: a call of the second window is in flight.
C3_Witness == \E k \in CallsIn("inflight") : k > 5

\* The moves of the state machine of an ingestion request.
IngestionEdges ==
    {<<"Idle", "Chunking">>, <<"Chunking", "Embedding">>,
     <<"Embedding", "Persisting">>, <<"Persisting", "Done">>,
     <<"Embedding", "Failed">>, <<"Persisting", "Failed">>}

\* C4: the states a request has entered start at Idle, follow the edges
\* Idle -> Chunking -> Embedding -> Persisting -> Done with Failed entered
\* from Embedding or Persisting only, hold no state twice (so nothing follows
\* Done or Failed), and a request that is Failed has no document in the
\* store.
C4_StateMachine ==
    /\ visited[1] = "Idle"
    /\ visited[Len(visited)] = pc
    /\ \A i \in 1..(Len(visited) - 1) :
          <<visited[i], visited[i + 1]>> \in IngestionEdges
    /\ \A i, j \in 1..Len(visited) : i # j => visited[i] # visited[j]
    /\ pc = "Failed" => ingDocId \notin IdsOf(documents)

(***************************************************************************)
(* Properties of the embedding model, checked under SpecEmbed.             *)
(***************************************************************************)
\* C2: under any interleaving of concurrent POST /api/embed requests the
\* embedding model is built at most once per process: pipeline(...) is never
\* invoked a second time.
C2_PipelineInvokedOnce == pipelineCalls <= 1

(***************************************************************************)
(* Properties of Search, checked under SpecSearch.                         *)
(***************************************************************************)
\* Where the chunk `id` is stored among `rows`.
PosOf(rows, id) == CHOOSE i \in 1..Len(rows) : rows[i].id = id

\* Two scores are the same value: both NaN, or the same number.
ScoreEq(x, y) ==
    IF x.nan \/ y.nan THEN x.nan /\ y.nan
    ELSE ~ScoreLess(x, y) /\ ~ScoreLess(y, x)

\* The score is the number 1.
IsOne(x) == x = [nan |-> FALSE, neg |-> FALSE, mant |-> BigShl(BigOfInt(1), 52), exp |-> -52]

\* C12 as claimed: of two returned chunks whose scores are numbers, the one
\* returned first does not have the smaller score, and when the scores are
\* equal it is the one stored first.
C12_SortedAndStable ==
    lastOp.op = "search" =>
        \A i, j \in 1..Len(lastOp.results) :
            LET x == lastOp.results[i]
                y == lastOp.results[j]
            IN  (i < j /\ ~x.score.nan /\ ~y.score.nan) =>
                    /\ ~ScoreLess(x.score, y.score)
                    /\ ScoreEq(x.score, y.score) =>
                          PosOf(lastOp.before.chunks, x.id)
                              < PosOf(lastOp.before.chunks, y.id)

\* The smaller and the larger of two integers.
MinInt(a, b) == IF a < b THEN a ELSE b
MaxInt(a, b) == IF a < b THEN b ELSE a

\* C13 as claimed: Search returns exactly min(topK, N) entries of the N
\* stored chunks, for every integer topK.
C13_ExactlyMinTopK ==
    lastOp.op = "search" =>
        Len(lastOp.results) = MinInt(lastOp.topK, Len(lastOp.before.chunks))

\* C13, amended: for topK >= 0 Search returns exactly min(topK, N) entries;
\* for topK < 0 it returns the N + topK entries that slice(0, topK) leaves
\* (none when N + topK < 0).
C13_MinTopKWhenNotNegative ==
    lastOp.op = "search" =>
        LET n == Len(lastOp.before.chunks)
        IN  Len(lastOp.results) =
                IF lastOp.topK >= 0 THEN MinInt(lastOp.topK, n)
                ELSE MaxInt(n + lastOp.topK, 0)

\* Witness of C13: a Search over more than topK chunks, cut to topK entries.
C13_Witness ==
    /\ lastOp.op = "search"
    /\ lastOp.topK >= 1
    /\ Len(lastOp.before.chunks) > lastOp.topK
    /\ Len(lastOp.results) = lastOp.topK

\* The stored chunks whose embedding is the query vector of the Search just
\* served.
QueryTwins ==
    {i \in 1..Len(lastOp.before.chunks) :
        lastOp.before.chunks[i].embedding = Float32Array(lastOp.queryEmbedding)}

\* C14 as claimed: a stored chunk whose embedding is the query vector is the
\* first entry of the result (topK >= 1) and its score is 1.
C14_TwinFirstWithScoreOne ==
    (lastOp.op = "search" /\ lastOp.topK >= 1) =>
        \A i \in QueryTwins :
            /\ lastOp.results[1].id = lastOp.before.chunks[i].id
            /\ IsOne(lastOp.results[1].score)

\* C15 as claimed: a stored chunk whose embedding is shorter or longer than
\* the query vector gets the score NaN.
C15_MismatchGivesNaN ==
    lastOp.op = "search" =>
        \A i \in 1..Len(lastOp.before.chunks) :
            Len(lastOp.before.chunks[i].embedding) # Len(lastOp.queryEmbedding)
                => lastOp.scored[i].score.nan

\* C16 as claimed: the score of the query against a stored embedding is the
\* score a Search with that embedding as its query computes against the
\* query vector.
C16_ScoreSymmetric ==
    lastOp.op = "search" =>
        \A i \in 1..Len(lastOp.before.chunks) :
            ScoreEq(lastOp.scored[i].score,
                    Score(lastOp.before.chunks[i].embedding,
                          Float32Array(lastOp.queryEmbedding)))

(***************************************************************************)
(* Properties of the chunking loop, checked under SpecChunker.             *)
(***************************************************************************)
\* The passages (decoded) and the text of the run.
Passages == [i \in 1..Len(ckChunks) |-> Decode(ckChunks[i])]

\* The first passage followed by every later one without its first
\* `overlap` characters.
RECURSIVE WithoutOverlaps(_, _)
WithoutOverlaps(parts, k) ==
    IF k > Len(parts) THEN << >>
    ELSE (IF k = 1 THEN parts[k] ELSE SubSeq(parts[k], overlap + 1, Len(parts[k])))
            \o WithoutOverlaps(parts, k + 1)

\* The stretch of the text each turn of the loop cut, before trimming.
WindowTexts ==
    LET text == Decode(ckText)
    IN  [i \in 1..Len(ckWindows) |->
            Substring(text, ckWindows[i].start, MinOf(ckWindows[i].end, Len(text)))]

\* Cross-check: the loop taken turn by turn yields what ChunkTexts yields.
LoopAgreesWithChunkTexts ==
    ckAt = "done" => Passages = ChunkTexts(Decode(ckText))

\* C17 as claimed: the passages, each later one without the overlap it
\* shares with its predecessor, concatenate to the whole text.
C17_PassagesReconstructText ==
    ckAt = "done" => WithoutOverlaps(Passages, 1) = Decode(ckText)

\* A passage is what Trim leaves of a window, and a window of white space
\* only gives no passage.
NonEmpty(part) == part # << >>
TrimmedWindows == SelectSeq([i \in 1..Len(WindowTexts) |-> Trim(WindowTexts[i])], NonEmpty)

\* C17, amended: the windows the loop cut, each later one without the
\* overlap it shares with its predecessor, concatenate to the whole text;
\* the passages are these windows with the white space at their two ends
\* removed, a window of white space only giving none.
C17_WindowsReconstructText ==
    ckAt = "done" =>
        /\ WithoutOverlaps(WindowTexts, 1) = Decode(ckText)
        /\ Passages = TrimmedWindows

\* Witness of C17: a text cut into three windows or more, one of which lost
\* white space to the trimming.
C17_Witness ==
    /\ ckAt = "done"
    /\ Len(ckWindows) >= 3
    /\ Len(Passages) = Len(ckWindows)
    /\ \E i \in 1..Len(ckWindows) : Passages[i] # WindowTexts[i]

\* C18: with chunkSize 1000 and overlap 200 every turn of the loop starts
\* inside the text and leaves a start greater than the one it began with,
\* whichever boundary it cut at; the loop therefore takes at most as many
\* turns as the text has characters.
C18_StartAdvances ==
    /\ \A i \in 1..Len(ckWindows) :
          /\ ckWindows[i].start < Len(Decode(ckText))
          /\ ckWindows[i].start <
                (IF i < Len(ckWindows) THEN ckWindows[i + 1].start ELSE ckStart)
    /\ ckAt = "loop" => ckStart < Len(Decode(ckText))
    /\ Len(ckWindows) <= Len(Decode(ckText))

\* Witness of C18: the loop has ended after three turns or more, one of
\* which cut at a newline or a period instead of the raw end.
C18_Witness ==
    /\ ckAt = "done"
    /\ Len(ckWindows) >= 3
    /\ \E i \in 1..Len(ckWindows) :
          /\ ckWindows[i].end # ckWindows[i].start + chunkSize
          /\ ckWindows[i].end < Len(Decode(ckText))

\* The last `overlap` characters of `left` are the first `overlap`
\* characters of `right`.
SharesOverlap(left, right) ==
    /\ Len(left) >= overlap
    /\ Len(right) >= overlap
    /\ SubSeq(left, Len(left) - overlap + 1, Len(left)) = SubSeq(right, 1, overlap)

\* C20 as claimed: every two consecutive passages share exactly `overlap`
\* characters.
C20_PassagesShareOverlap ==
    ckAt = "done" =>
        \A i \in 1..(Len(Passages) - 1) : SharesOverlap(Passages[i], Passages[i + 1])

\* C20, amended: every two consecutive windows share exactly `overlap`
\* characters: each window starts `overlap` characters before the end of its
\* predecessor, and these characters end the one and begin the other.
C20_WindowsShareOverlap ==
    ckAt = "done" =>
        \A i \in 1..(Len(ckWindows) - 1) :
            /\ ckWindows[i + 1].start = ckWindows[i].end - overlap
            /\ SharesOverlap(WindowTexts[i], WindowTexts[i + 1])

\* Witness of C20: two consecutive windows whose shared characters are not
\* all the same letter.
C20_Witness ==
    /\ ckAt = "done"
    /\ \E i \in 1..(Len(ckWindows) - 1) :
          LET shared == SubSeq(WindowTexts[i + 1], 1, overlap)
          IN  \E j \in 1..Len(shared) : shared[j] # shared[1]

\* `part` is `text` without the white space at its two ends: it is not
\* empty, begins and ends with a character that is not white space, and
\* `text` is white space, then `part`, then white space.
IsTrimOf(part, text) ==
    /\ part # << >>
    /\ part[1] \notin WhiteSpace
    /\ part[Len(part)] \notin WhiteSpace
    /\ \E i \in 1..Len(text) :
          /\ SubSeq(text, i, i + Len(part) - 1) = part
          /\ \A j \in 1..(i - 1) : text[j] \in WhiteSpace
          /\ \A j \in (i + Len(part))..Len(text) : text[j] \in WhiteSpace

\* C21: a text shorter than chunkSize yields exactly one passage, the text
\* without the white space at its ends, or no passage when the text is empty
\* or white space only; and no passage of any text is empty or begins or
\* ends with white space.
C21_ShortTextOnePassage ==
    /\ \A i \in 1..Len(Passages) : IsTrimOf(Passages[i], Passages[i])
    /\ (ckAt = "done" /\ Len(Decode(ckText)) < chunkSize) =>
          LET text == Decode(ckText)
          IN  IF \A j \in 1..Len(text) : text[j] \in WhiteSpace
              THEN Passages = << >>
              ELSE Len(Passages) = 1 /\ IsTrimOf(Passages[1], text)

\* Witness of C21: a text shorter than chunkSize, with white space at an
\* end, has given its one passage.
C21_Witness ==
    /\ ckAt = "done"
    /\ Len(Decode(ckText)) < chunkSize
    /\ Len(Passages) = 1
    /\ Passages[1] # Decode(ckText)

(***************************************************************************)
(* Properties of the progress reports, checked under SpecIngest.  A        *)
(* reported value is the fraction num / den.                               *)
(***************************************************************************)
\* The number of chunks embedded when the k-th window of n chunks completes.
CompletedAfter(k, n) == MinInt(concurrentLimit * k, n)

\* C22 as claimed: the k-th reported value is min(completed / N, 1), and so
\* lies in (0, 1].
C22_ProgressIsFraction ==
    \A k \in 1..Len(progress) :
        /\ progress[k].num * Len(ingChunks)
              = progress[k].den * CompletedAfter(k, Len(ingChunks))
        /\ 0 < progress[k].num
        /\ progress[k].num <= progress[k].den

\* C22, amended: the k-th reported value is the percentage
\* min(completed / N * 100, 100), and so lies in (0, 100].
C22_ProgressIsPercentage ==
    \A k \in 1..Len(progress) :
        /\ progress[k].num * Len(ingChunks)
              = 100 * progress[k].den * CompletedAfter(k, Len(ingChunks))
        /\ 0 < progress[k].num
        /\ progress[k].num <= 100 * progress[k].den
        /\ Cardinality(CallsIn("ok")) >= CompletedAfter(k, Len(ingChunks))

\* Witness of C22: two reports, the first below 100.
C22_Witness ==
    /\ Len(progress) = 2
    /\ progress[1].num < 100 * progress[1].den

\* The windows of the current request all of whose calls have succeeded.
WindowsEmbedded ==
    {w \in 0..((Len(calls) - 1) \div concurrentLimit) :
        \A k \in Batch(Len(calls), w * concurrentLimit) : calls[k] = "ok"}

\* ceil(n / 5).
WindowsOf(n) == (n + concurrentLimit - 1) \div concurrentLimit

\* C28: in an ingestion of N > 0 chunks with a progress callback, there is
\* one report per window whose calls have all succeeded and none else (so
\* none behind an embed failure and none once the commit is issued), the
\* values increase strictly, and when the commit is issued there have been
\* ceil(N / 5) reports, the last of them 100.
C28_ProgressReports ==
    (ingArgs.onProgress /\ Len(ingChunks) > 0) =>
        /\ Len(progress) = Cardinality(WindowsEmbedded)
        /\ \A k \in 1..(Len(progress) - 1) :
              progress[k].num * progress[k + 1].den
                  < progress[k + 1].num * progress[k].den
        /\ commits > 0 =>
              /\ Len(progress) = WindowsOf(Len(ingChunks))
              /\ progress[Len(progress)].num = 100 * progress[Len(progress)].den
        /\ CallsIn("failed") # {} => Len(progress) < WindowsOf(Len(ingChunks))

\* Witness of C28: the request is Done after two windows, with two reports.
C28_Witness ==
    /\ pc = "Done"
    /\ ingArgs.onProgress
    /\ Len(ingChunks) > concurrentLimit
    /\ Len(progress) = 2

\* The text of the current request yields no passage.
NoPassage == \A j \in 1..Len(Decode(ingArgs.text)) : Decode(ingArgs.text)[j] \in WhiteSpace

\* What the chunk-less request did once the server has run its commit: no
\* embed call, no report, one commit with an empty list, answered 200; the
\* document is stored with no chunk, ListDocuments returns it and every Search
\* returns what it returned before.
ChunklessCommitted ==
    /\ calls = << >>
    /\ progress = << >>
    /\ commits = 1
    /\ lastOp.op = "ingest"
    /\ lastOp.body.chunks = ArrayChunks(<< >>)
    /\ lastOp.status = Ok
    /\ ingDocId \in IdsOf(documents)
    /\ RowsOf(chunks, ingDocId) = << >>
    /\ \A docs \in ListOrders(documents) : ingDocId \in IdsOf(docs)
    /\ \A q \in Vectors, topK \in TopKs :
          SearchResults(chunks, q, topK) = SearchResults(lastOp.before.chunks, q, topK)

\* C29 as claimed: ingestDocument on a text that yields no passage makes no
\* embed call and no report, and ends with its document stored without
\* chunks.
C29_ChunklessDocumentStored ==
    /\ (pc \in {"Embedding", "Persisting", "Done", "Failed"} /\ NoPassage) =>
          calls = << >> /\ progress = << >>
    /\ (pc \in {"Done", "Failed"} /\ NoPassage) =>
          ChunklessCommitted

\* C29, amended: on a text that yields no passage there is no embed call and
\* no report, the commit is issued, and once the server has run it: a request
\* whose source name is not empty has its document stored without chunks;
\* with an empty name the commit is answered 400, nothing is stored and the
\* request does not end as Done.  A request ends as Done only after the
\* server has run its commit.
C29_ChunklessDocumentStoredIfNamed ==
    /\ (pc \in {"Embedding", "Persisting", "Done", "Failed"} /\ NoPassage) =>
          calls = << >> /\ progress = << >>
    /\ (pc \in {"Persisting", "Done", "Failed"} /\ NoPassage) => commits = 1
    /\ (pc = "Done" /\ NoPassage) => lastOp # NoOp
    /\ (pc \in {"Persisting", "Done", "Failed"} /\ NoPassage /\ lastOp # NoOp) =>
          IF ingArgs.source # "" THEN ChunklessCommitted
          ELSE /\ pc # "Done"
               /\ lastOp.status = BadRequest
               /\ ingDocId \notin IdsOf(documents)

\* Witness of C29: a text of white space committed next to a document that
\* has chunks.
C29_Witness ==
    /\ pc = "Done"
    /\ NoPassage
    /\ Len(ingArgs.text) > 0
    /\ ingDocId \in IdsOf(documents)
    /\ Len(chunks) > 0

(***************************************************************************)
(* Properties of the window boundaries, checked under SpecChunker.         *)
(***************************************************************************)
\* The window was cut right behind a newline: its last character is one.
NewlineCut(text, w) == w.end \in 1..Len(text) /\ text[w.end] = "\n"

\* The window was cut right behind a period and a space.
PeriodCut(text, w) ==
    w.end \in 2..Len(text) /\ text[w.end - 1] = "." /\ text[w.end] = " "

\* C27: a window end that is not the raw end start + 1000 lies right behind
\* a newline and in [rawEnd - 99, rawEnd + 100], or right behind a period
\* and a space and in [rawEnd - 48, rawEnd + 51]; every turn of the loop but
\* the last moves the start forward by 701 characters or more; and the loop
\* goes on while the window end is before the end of the text and has
\* stopped once it has reached or passed it.
C27_BoundaryRanges ==
    LET text == Decode(ckText)
    IN  /\ \A i \in 1..Len(ckWindows) :
              LET w == ckWindows[i]
                  rawEnd == w.start + 1000
              IN  /\ w.end # rawEnd =>
                        \/ NewlineCut(text, w) /\ w.end \in (rawEnd - 99)..(rawEnd + 100)
                        \/ PeriodCut(text, w) /\ w.end \in (rawEnd - 48)..(rawEnd + 51)
                  /\ i < Len(ckWindows) =>
                        /\ w.end < Len(text)
                        /\ ckWindows[i + 1].start - w.start >= 701
        /\ (ckAt = "loop" /\ ckWindows # << >>) =>
              /\ ckWindows[Len(ckWindows)].end < Len(text)
              /\ ckStart - ckWindows[Len(ckWindows)].start >= 701
        /\ (ckAt = "done" /\ ckWindows # << >>) =>
              ckWindows[Len(ckWindows)].end >= Len(text)

\* Witness of C27: the loop has ended after a turn that was not the last
\* and cut behind a period at the far end of its range, rawEnd + 51.
C27_Witness ==
    /\ ckAt = "done"
    /\ \E i \in 1..(Len(ckWindows) - 1) :
          /\ PeriodCut(Decode(ckText), ckWindows[i])
          /\ ckWindows[i].end = ckWindows[i].start + 1051


(***************************************************************************)
(* The frame of the handlers, checked under Spec.                          *)
(***************************************************************************)
\* The rows of the two tables that do not belong to document d, in storage
\* order.
OthersOf(tables, d) ==
    LET OtherDoc(r) == r.id # d
        OtherChunk(r) == r.document_id # d
    IN  [documents |-> SelectSeq(tables.documents, OtherDoc),
         chunks |-> SelectSeq(tables.chunks, OtherChunk)]

\* C26: an Ingest or a DeleteDocument of document d, whatever its outcome,
\* leaves the rows of every other document and the chunk rows of every other
\* document as they were, field by field and in the same storage order; a
\* Search and a ListDocuments leave both tables as they were.
C26_OtherDocumentsUntouched ==
    /\ lastOp.op = "ingest" =>
          OthersOf(Tables, lastOp.body.id) = OthersOf(lastOp.before, lastOp.body.id)
    /\ lastOp.op = "delete" =>
          OthersOf(Tables, lastOp.id) = OthersOf(lastOp.before, lastOp.id)
    /\ lastOp.op \in {"search", "list"} => Tables = lastOp.before

\* Witness of C26: an Ingest has added chunk rows for its document to a
\* store that held chunk rows of another document.
C26_Witness ==
    /\ lastOp.op = "ingest"
    /\ lastOp.status = Ok
    /\ Len(chunks) > Len(lastOp.before.chunks)
    /\ OthersOf(lastOp.before, lastOp.body.id).chunks # << >>


(***************************************************************************)
(* Properties of ListDocuments, checked under SpecList.                    *)
(***************************************************************************)
\* C25 as claimed: the list is the stored documents, the one committed last
\* first: `documents` holds them in the order of their commits, so the list
\* is its reverse.
C25_ListedNewestFirst ==
    lastOp.op = "list" => lastOp.results = Reverse(lastOp.before.documents)

(***************************************************************************)
(* Properties of ask, checked under SpecAsk.                               *)
(***************************************************************************)
\* C23 as claimed: no step of an ask is taken twice, and a step that failed
\* is the last one taken and ends the request as failed, with an error for
\* the caller.
C23_FailuresSurfaced ==
    /\ \A j, k \in 1..Len(askSteps) : j # k => askSteps[j].step # askSteps[k].step
    /\ \A k \in 1..Len(askSteps) :
          ~askSteps[k].ok =>
              /\ k = Len(askSteps)
              /\ askAt \in {"failed", "idle"}
              /\ askOut = [kind |-> "error"]

\* C24: an ask that returns hands back as sources what its search call
\* returned, in the same order: the results the handler of POST /api/search
\* sent, the first 4 of the scored rows or all of them when there are fewer,
\* or nothing when the response was not ok; and as answer the text of the
\* provider, or "No response generated." when that text is null or empty.
C24_AnswerAndSources ==
    askAt = "done" =>
        /\ askOut.kind = "result"
        /\ askOut.sources =
              (IF askServed.status = Ok THEN askServed.results ELSE << >>)
        /\ Len(askOut.sources) <= 4
        /\ askServed.status = Ok =>
              Len(askOut.sources) = MinInt(4, askServed.rows)
        /\ askOut.answer =
              (IF askData.text.kind = "string" /\ askData.text.s # ""
               THEN askData.text.s ELSE "No response generated.")

\* Witness of C24: an ask over a store of five chunks or more has returned
\* four sources, and the fallback answer for an empty text.
C24_Witness ==
    /\ askAt = "done"
    /\ askServed.rows > 4
    /\ Len(askOut.sources) = 4
    /\ askData.text = StringContent("")
    /\ askOut.answer = "No response generated."

============================================================================
